---------------------------- MODULE Spec2Model ----------------------------
(***************************************************************************)
(* upbc::MessageLayout (upbc/message_layout.h, upbc/message_layout.cc).    *)
(*                                                                         *)
(* One MessageLayout object is constructed from one message descriptor.    *)
(* The constructor runs ComputeLayout; afterwards the object is queried    *)
(* through its const accessors.  The descriptor is the input; the private  *)
(* members of the object are the state.  The accessors are const: every    *)
(* call sees the object as the constructor left it, so a behaviour follows *)
(* the object through its construction and one accessor call.              *)
(*                                                                         *)
(* Descriptor pointers used as map keys are modelled by the field number   *)
(* (unique within a message) and by the oneof's name.                      *)
(***************************************************************************)
EXTENDS Integers, Sequences, FiniteSets, TLC

VARIABLES
    descriptor,            \* the const protobuf::Descriptor* given to the constructor
    pc,                    \* "new" | "ready" | "returned" | "exited" | "aborted"
    diag,                  \* what the process wrote to stderr when it terminated
    field_offsets_,        \* flat_hash_map<const FieldDescriptor*, Size>
    hasbit_indexes_,       \* flat_hash_map<const FieldDescriptor*, int>
    oneof_case_offsets_,   \* flat_hash_map<const OneofDescriptor*, Size>
    maxalign_,             \* Size
    size_,                 \* Size
    hasbit_count_,         \* int
    hasbit_bytes_,         \* int
    required_count_,       \* int
    ret                    \* the last accessor call and the value it returned

vars == << descriptor, pc, diag, field_offsets_, hasbit_indexes_,
           oneof_case_offsets_, maxalign_, size_, hasbit_count_,
           hasbit_bytes_, required_count_, ret >>

-----------------------------------------------------------------------------
(* Bounds of the checked input space.                                      *)

\* Longest field list of the exhaustively enumerated small messages.
MaxFields == 2

\* Largest number of required fields of the large messages.
MaxRequired == 64

\* Largest number of optional (presence-tracked) fields of the large messages.
MaxOptional == 65

\* An int member read before any assignment yields a value in
\* -MaxIndeterminate .. MaxIndeterminate.
MaxIndeterminate == 1

-----------------------------------------------------------------------------
(* struct Size and struct SizeAndAlign                                     *)

MkSize(s32, s64) == [size32 |-> s32, size64 |-> s64]

MkSizeAndAlign(s32, s64, a32, a64) ==
    [size |-> MkSize(s32, s64), align |-> MkSize(a32, a64)]

Max(a, b) == IF a < b THEN b ELSE a

\* a & b on non-negative integers.
RECURSIVE BitAnd(_, _)
BitAnd(a, b) ==
    IF a = 0 \/ b = 0 THEN 0
    ELSE (a % 2) * (b % 2) + 2 * BitAnd(a \div 2, b \div 2)

\* a & ~b on non-negative integers (every bit of b above a's width is
\* irrelevant, so the result is that of the 64-bit size_t expression).
RECURSIVE BitAndNot(_, _)
BitAndNot(a, b) ==
    IF a = 0 THEN 0
    ELSE (a % 2) * (1 - (b % 2)) + 2 * BitAndNot(a \div 2, b \div 2)

\* (val & (val - 1)) == 0 on size_t; for val = 0 the left operand is 0.
IsPowerOfTwo(val) ==
    IF val = 0 THEN TRUE ELSE BitAnd(val, val - 1) = 0

\* (val + align - 1) & ~(align - 1) on size_t.  For align = 0 the mask
\* ~(align - 1) is 0.  The ABSL_ASSERT is AlignAsserts below.
Align(val, align) ==
    IF align = 0 THEN 0 ELSE BitAndNot(val + align - 1, align - 1)

Add(self, other) ==
    MkSize(self.size32 + other.size32, self.size64 + other.size64)

MaxFrom(self, other) ==
    MkSize(Max(self.size32, other.size32), Max(self.size64, other.size64))

AlignUp(self, align) ==
    MkSize(Align(self.size32, align.size32), Align(self.size64, align.size64))

\* ABSL_ASSERT(IsPowerOfTwo(align)) of both Align calls of one AlignUp.
AlignAsserts(align) ==
    IsPowerOfTwo(align.size32) /\ IsPowerOfTwo(align.size64)

SizeAndAlignMaxFrom(self, other) ==
    [size |-> MaxFrom(self.size, other.size),
     align |-> MaxFrom(self.align, other.align)]

\* (a + b - 1) / b
DivRoundUp(a, b) == (a + b - 1) \div b

-----------------------------------------------------------------------------
(* The descriptors read by the layout (google::protobuf, read-only input). *)

CppTypes ==
    { "CPPTYPE_INT32", "CPPTYPE_INT64", "CPPTYPE_UINT32", "CPPTYPE_UINT64",
      "CPPTYPE_DOUBLE", "CPPTYPE_FLOAT", "CPPTYPE_BOOL", "CPPTYPE_ENUM",
      "CPPTYPE_STRING", "CPPTYPE_MESSAGE" }

\* The same types as a list, used to vary the types of the large messages.
CppTypeList ==
    << "CPPTYPE_INT32", "CPPTYPE_INT64", "CPPTYPE_UINT32", "CPPTYPE_UINT64",
       "CPPTYPE_DOUBLE", "CPPTYPE_FLOAT", "CPPTYPE_BOOL", "CPPTYPE_ENUM",
       "CPPTYPE_STRING", "CPPTYPE_MESSAGE" >>

\* A null OneofDescriptor*.  A oneof is identified by its name, a non-empty
\* sequence of character codes.
NoOneof == << >>

\* A FieldDescriptor: number(), cpp_type(), label(), has_presence(),
\* containing_oneof(), real_containing_oneof() and
\* containing_type()->options().map_entry().
MkField(number, cpp_type, label, has_presence, oneof, real_oneof, map_entry) ==
    [ number                |-> number,
      cpp_type              |-> cpp_type,
      label                 |-> label,
      has_presence          |-> has_presence,
      containing_oneof      |-> oneof,
      real_containing_oneof |-> real_oneof,
      map_entry             |-> map_entry ]

is_repeated(field) == field.label = "LABEL_REPEATED"

is_required(field) == field.label = "LABEL_REQUIRED"

\* A Descriptor: options().map_entry(), field(0..field_count()-1) and
\* oneof_decl(0..oneof_decl_count()-1), both in declaration order.
MkDescriptor(map_entry, fields, oneofs) ==
    [ map_entry |-> map_entry, field |-> fields, oneof_decl |-> oneofs ]

Range(s) == { s[i] : i \in DOMAIN s }

FieldNumbers(d) == { f.number : f \in Range(d.field) }

\* descriptor->FindFieldByNumber(number)
FindFieldByNumber(d, number) ==
    CHOOSE f \in Range(d.field) : f.number = number

\* oneof->field(0..field_count()-1): the members, in declaration order.
OneofFields(d, oneof) ==
    SelectSeq(d.field, LAMBDA f : f.containing_oneof = oneof)

-----------------------------------------------------------------------------
(* Field classification.                                                   *)

HasHasbit(field) ==
    /\ field.has_presence
    /\ field.real_containing_oneof = NoOneof
    /\ ~field.map_entry

SizeOfUnwrapped(field) ==
    CASE field.cpp_type = "CPPTYPE_MESSAGE" -> MkSizeAndAlign(4, 8, 4, 8)
      [] field.cpp_type = "CPPTYPE_STRING"  -> MkSizeAndAlign(8, 16, 4, 8)
      [] field.cpp_type = "CPPTYPE_BOOL"    -> MkSizeAndAlign(1, 1, 1, 1)
      [] field.cpp_type \in { "CPPTYPE_FLOAT", "CPPTYPE_INT32",
                              "CPPTYPE_UINT32", "CPPTYPE_ENUM" }
                                            -> MkSizeAndAlign(4, 4, 4, 4)
      [] field.cpp_type \in { "CPPTYPE_INT64", "CPPTYPE_UINT64",
                              "CPPTYPE_DOUBLE" }
                                            -> MkSizeAndAlign(8, 8, 8, 8)

SizeOf(field) ==
    IF is_repeated(field)
    THEN MkSizeAndAlign(4, 8, 4, 8)
    ELSE SizeOfUnwrapped(field)

\* The rank computed by FieldLayoutRank before the field number is or-ed in.
\* The function is only called for fields with no containing oneof.
LayoutRankBucket(field) ==
    IF is_repeated(field) THEN 6
    ELSE CASE field.cpp_type = "CPPTYPE_MESSAGE" -> 5
           [] field.cpp_type = "CPPTYPE_STRING"  -> 4
           [] field.cpp_type = "CPPTYPE_BOOL"    -> 3
           [] field.cpp_type \in { "CPPTYPE_FLOAT", "CPPTYPE_INT32",
                                   "CPPTYPE_UINT32" } -> 2
           [] OTHER -> 1

\* The rank without "Break ties with field number".
FieldLayoutRankNoTieBreak(field) ==
    [ rank |-> LayoutRankBucket(field), number |-> 0 ]

\* (rank << 29) | field->number() as an int64_t.  Field numbers are below
\* 2^29, so the value is the pair (rank, number) under lexicographic order;
\* the pair is kept because 6 * 2^29 exceeds TLC's 32-bit integers.
FieldLayoutRank(field) ==
    [ rank |-> LayoutRankBucket(field), number |-> field.number ]

\* FieldLayoutRank(a) < FieldLayoutRank(b), the comparator of the sort in
\* PlaceNonOneofFields.
LayoutRankLess(a, b) ==
    LET ra == FieldLayoutRank(a)
        rb == FieldLayoutRank(b)
    IN  \/ ra.rank < rb.rank
        \/ ra.rank = rb.rank /\ ra.number < rb.number

\* The order by field number alone, required or not.
HotnessLessByNumber(a, b) == a.number < b.number

\* std::make_pair(!a->is_required(), a->number()) <
\* std::make_pair(!b->is_required(), b->number())
HotnessLess(a, b) ==
    LET na == IF is_required(a) THEN 0 ELSE 1
        nb == IF is_required(b) THEN 0 ELSE 1
    IN  \/ na < nb
        \/ na = nb /\ a.number < b.number

\* a < b on std::string, for names given as sequences of character codes.
RECURSIVE StringLess(_, _)
StringLess(a, b) ==
    IF b = << >> THEN FALSE
    ELSE IF a = << >> THEN TRUE
    ELSE IF Head(a) # Head(b) THEN Head(a) < Head(b)
    ELSE StringLess(Tail(a), Tail(b))

\* std::sort with comparator Less.  Every comparator of this file is a strict
\* total order on its input (field numbers and oneof names are unique within
\* a message), so the sorted sequence is unique.
Sort(s, Less(_, _)) == SortSeq(s, Less)

FieldHotnessOrder(message) == Sort(message.field, HotnessLess)

-----------------------------------------------------------------------------
(* The placement engine.  `self` is the MessageLayout object under         *)
(* construction: its members, plus `returned` (the value the last call of  *)
(* Place returned), `asserts` (no ABSL_ASSERT has failed so far) and       *)
(* `exited` (exit(1) was called).                                          *)

\* The value of the members while no constructed object exists.
NoObject == "no object"

\* The int members the constructor has not assigned; reading one yields
\* whatever the object's storage held.
IntMembers == { "hasbit_count_", "hasbit_bytes_", "required_count_" }

\* map[key] = value
MapPut(map, key, value) ==
    [ k \in (DOMAIN map) \cup {key} |-> IF k = key THEN value ELSE map[k] ]

\* Place without `size_.AlignUp(size_and_align.align)`: the offset is the
\* unaligned size.
PlaceWithoutAlignUp(self, size_and_align) ==
    [ self EXCEPT
        !.returned = self.size_,
        !.size_ = Add(self.size_, size_and_align.size),
        !.maxalign_ = MaxFrom(self.maxalign_, size_and_align.size) ]

\* Place without `size_.Add(size_and_align.size)`: the size does not grow.
PlaceWithoutAdd(self, size_and_align) ==
    [ self EXCEPT
        !.returned = AlignUp(self.size_, size_and_align.align),
        !.size_ = AlignUp(self.size_, size_and_align.align),
        !.maxalign_ = MaxFrom(self.maxalign_, size_and_align.size) ]

\* Place: `returned` is the offset; a failed assertion of AlignUp is noted.
Place(self, size_and_align) ==
    [ self EXCEPT
        !.asserts = self.asserts /\ AlignAsserts(size_and_align.align),
        !.returned = AlignUp(self.size_, size_and_align.align),
        !.size_ = Add(AlignUp(self.size_, size_and_align.align),
                      size_and_align.size),
        !.maxalign_ = MaxFrom(self.maxalign_, size_and_align.size) ]

\* field_offsets_[field] = <the offset the call of Place just returned>
StoreFieldOffset(placed, field) ==
    [ placed EXCEPT
        !.field_offsets_ = MapPut(@, field.number, placed.returned) ]

\* int index = ++hasbit_count_; hasbit_indexes_[field] = index;
CountHasbit(self, field) ==
    [ self EXCEPT
        !.hasbit_count_ = @ + 1,
        !.hasbit_indexes_ = MapPut(@, field.number, self.hasbit_count_ + 1) ]

\* if (field->is_required()) { if (index > 63) exit(1); required_count_++; }
CountRequired(counted, field) ==
    IF ~is_required(field) THEN counted
    ELSE IF counted.hasbit_count_ > 63
         THEN [ counted EXCEPT !.exited = TRUE ]
         ELSE [ counted EXCEPT !.required_count_ = @ + 1 ]

\* One iteration of the loop "Place/count hasbits" of PlaceNonOneofFields.
PlaceHasbit(self, field) ==
    IF HasHasbit(field)
    THEN CountRequired(CountHasbit(self, field), field)
    ELSE self

\* The iterations lo .. hi of that loop, in order; exit(1) ends it.  (The
\* range is split in two halves to keep the evaluation shallow.)
RECURSIVE PlaceHasbits(_, _, _, _)
PlaceHasbits(self, fields, lo, hi) ==
    IF self.exited \/ lo > hi THEN self
    ELSE IF lo = hi THEN PlaceHasbit(self, fields[lo])
    ELSE PlaceHasbits(PlaceHasbits(self, fields, lo, (lo + hi) \div 2),
                      fields, ((lo + hi) \div 2) + 1, hi)

\* One iteration of the loop "Place non-oneof fields" of PlaceNonOneofFields.
PlaceField(self, field) ==
    StoreFieldOffset(Place(self, SizeOf(field)), field)

\* The iterations lo .. hi of that loop, in order.
RECURSIVE PlaceFieldOrder(_, _, _, _)
PlaceFieldOrder(self, field_order, lo, hi) ==
    IF self.exited \/ lo > hi THEN self
    ELSE IF lo = hi THEN PlaceField(self, field_order[lo])
    ELSE PlaceFieldOrder(
           PlaceFieldOrder(self, field_order, lo, (lo + hi) \div 2),
           field_order, ((lo + hi) \div 2) + 1, hi)

\* hasbit_bytes_ = DivRoundUp(hasbit_count_, 8);
HasbitBytes(hasbit_count) == DivRoundUp(hasbit_count, 8)

\* "Place hasbits at the beginning."
PlaceHasbitBytes(counted) ==
    IF counted.exited THEN counted
    ELSE Place([ counted EXCEPT
                   !.hasbit_bytes_ = HasbitBytes(counted.hasbit_count_),
                   !.unassigned = @ \ { "hasbit_bytes_" } ],
               MkSizeAndAlign(HasbitBytes(counted.hasbit_count_),
                              HasbitBytes(counted.hasbit_count_), 1, 1))

\* The sorted field_order of PlaceNonOneofFields.
FieldOrder(d) ==
    Sort(SelectSeq(d.field, LAMBDA f : f.containing_oneof = NoOneof),
         LayoutRankLess)

PlaceAll(self, field_order) ==
    PlaceFieldOrder(self, field_order, 1, Len(field_order))

PlaceNonOneofFields(self, d) ==
    PlaceAll(
      PlaceHasbitBytes(
        PlaceHasbits(
          [ self EXCEPT
              !.hasbit_count_ = 0, !.required_count_ = 0,
              !.unassigned = @ \ { "hasbit_count_", "required_count_" } ],
          FieldHotnessOrder(d), 1, Len(d.field))),
      FieldOrder(d))

\* The loop "Calculate max size" of PlaceOneofFields.
RECURSIVE OneofMaxSize(_, _, _)
OneofMaxSize(oneof_maxsize, members, i) ==
    IF i > Len(members) THEN oneof_maxsize
    ELSE OneofMaxSize(SizeAndAlignMaxFrom(oneof_maxsize, SizeOf(members[i])),
                      members, i + 1)

\* oneof_case_offsets_[oneof] = discriminator, and field_offsets_[f] = data
\* for every member f.
StoreOneof(discriminator, oneof, members, data) ==
    [ discriminator EXCEPT
        !.oneof_case_offsets_ = MapPut(@, oneof, discriminator.returned),
        !.field_offsets_ =
            [ k \in (DOMAIN @) \cup { f.number : f \in Range(members) } |->
                IF k \in { f.number : f \in Range(members) }
                THEN data ELSE @[k] ] ]

\* "Place discriminator enum and data": the discriminator, after the data.
PlaceDiscriminator(data, oneof, members) ==
    StoreOneof(Place(data, MkSizeAndAlign(4, 4, 4, 4)),
               oneof, members, data.returned)

\* One iteration of the loop over oneof_order of PlaceOneofFields.
PlaceOneof(self, oneof, members) ==
    PlaceDiscriminator(
      Place(self, OneofMaxSize(MkSizeAndAlign(0, 0, 0, 0), members, 1)),
      oneof, members)

RECURSIVE PlaceOneofOrder(_, _, _, _)
PlaceOneofOrder(self, d, oneof_order, i) ==
    IF self.exited \/ i > Len(oneof_order) THEN self
    ELSE PlaceOneofOrder(
           PlaceOneof(self, oneof_order[i], OneofFields(d, oneof_order[i])),
           d, oneof_order, i + 1)

\* a->full_name() < b->full_name()
OneofNameLess(a, b) == StringLess(a, b)

PlaceOneofFields(self, d) ==
    PlaceOneofOrder(self, d, Sort(d.oneof_decl, OneofNameLess), 1)

\* The object at the start of the constructor: the maps are default
\* constructed (empty); no other member has an initializer, so the int
\* members are listed in `unassigned` until ComputeLayout assigns them (the 0
\* is a placeholder that is never read: see ReadInt).  size_ and maxalign_
\* hold what the first two statements of ComputeLayout assign.
NewObject ==
    [ field_offsets_      |-> << >>,
      hasbit_indexes_     |-> << >>,
      oneof_case_offsets_ |-> << >>,
      maxalign_           |-> MkSize(8, 8),
      size_               |-> MkSize(0, 0),
      hasbit_count_       |-> 0,
      hasbit_bytes_       |-> 0,
      required_count_     |-> 0,
      unassigned          |-> IntMembers,
      returned            |-> MkSize(0, 0),
      asserts             |-> TRUE,
      exited              |-> FALSE ]

\* field_offsets_[descriptor->FindFieldByNumber(number)] = Place(size);
PlaceMapEntryField(self, d, number) ==
    StoreFieldOffset(Place(self, MkSizeAndAlign(8, 16, 4, 8)),
                     FindFieldByNumber(d, number))

\* ComputeLayout up to, and without, the final size_.AlignUp(maxalign_).
ComputeLayoutBody(d) ==
    IF d.map_entry
    THEN PlaceMapEntryField(PlaceMapEntryField(NewObject, d, 1), d, 2)
    ELSE PlaceOneofFields(PlaceNonOneofFields(NewObject, d), d)

\* "Align overall size up to max size."
AlignOverallSize(body) ==
    IF body.exited THEN body
    ELSE [ body EXCEPT
             !.asserts = body.asserts /\ AlignAsserts(body.maxalign_),
             !.size_ = AlignUp(body.size_, body.maxalign_) ]

ComputeLayout(d) == AlignOverallSize(ComputeLayoutBody(d))

-----------------------------------------------------------------------------
(* The messages the layout is computed for.                                *)

\* The synthetic oneof of a proto3 optional field, "_<field>": it sorts
\* before every real oneof name; containing_oneof() returns it and
\* real_containing_oneof() returns null.
SyntheticOneof(number) == << 0, number >>

\* The ways a field of an ordinary message is declared.
FieldKinds ==
    { "optional",    \* singular, explicit presence
      "implicit",    \* singular, no presence (proto3 scalar)
      "required",
      "repeated",
      "oneof_a",     \* member of the real oneof "a"
      "oneof_ab",    \* member of the real oneof "ab"
      "proto3_optional" }

DeclaredField(number, cpp_type, kind) ==
    CASE kind = "optional" ->
           MkField(number, cpp_type, "LABEL_OPTIONAL", TRUE,
                   NoOneof, NoOneof, FALSE)
      [] kind = "implicit" ->
           MkField(number, cpp_type, "LABEL_OPTIONAL", FALSE,
                   NoOneof, NoOneof, FALSE)
      [] kind = "required" ->
           MkField(number, cpp_type, "LABEL_REQUIRED", TRUE,
                   NoOneof, NoOneof, FALSE)
      [] kind = "repeated" ->
           MkField(number, cpp_type, "LABEL_REPEATED", FALSE,
                   NoOneof, NoOneof, FALSE)
      [] kind = "oneof_a" ->
           MkField(number, cpp_type, "LABEL_OPTIONAL", TRUE,
                   << 1 >>, << 1 >>, FALSE)
      [] kind = "oneof_ab" ->
           MkField(number, cpp_type, "LABEL_OPTIONAL", TRUE,
                   << 1, 2 >>, << 1, 2 >>, FALSE)
      [] kind = "proto3_optional" ->
           MkField(number, cpp_type, "LABEL_OPTIONAL", TRUE,
                   SyntheticOneof(number), NoOneof, FALSE)

\* The types of the fields of the small messages: one type of each size and
\* alignment.  (The other types occur in the scenario, large and map-entry
\* messages.)
SmallTypes ==
    { "CPPTYPE_INT64", "CPPTYPE_INT32", "CPPTYPE_BOOL", "CPPTYPE_STRING" }

\* The types of the fields of the small messages whose accessors are called.
CalledTypes == { "CPPTYPE_INT64", "CPPTYPE_BOOL" }

\* All sequences that list every element of the set S once.
Orderings(S) ==
    { s \in [ 1 .. Cardinality(S) -> S ] :
        \A i, j \in 1 .. Cardinality(S) : s[i] = s[j] => i = j }

OneofsOf(fields) ==
    { f.containing_oneof : f \in Range(fields) } \ { NoOneof }

\* d is an ordinary message of at most MaxFields fields, numbered 1 .. n and
\* declared in any order, with its oneofs declared in any order.
IsSmallDescriptor(d, types) ==
    \E n \in 0 .. MaxFields :
      \E number \in Permutations(1 .. n),
         choice \in [ 1 .. n -> [ cpp_type : types, kind : FieldKinds ] ] :
        LET fields == [ i \in 1 .. n |->
                          DeclaredField(number[i], choice[i].cpp_type,
                                        choice[i].kind) ]
        IN  \E oneofs \in Orderings(OneofsOf(fields)) :
              d = MkDescriptor(FALSE, fields, oneofs)

\* A large message: `required` required fields and `optional` optional fields
\* with explicit presence, numbered 1 .. required + optional.  The required
\* fields have the low numbers or the high ones, the types cycle through
\* CppTypeList, and the fields are declared by ascending or descending number.
LargeDescriptor(required, optional, required_low, ascending) ==
    LET n == required + optional
        is_req(number) ==
            IF required_low THEN number <= required ELSE number > optional
        field_of(number) ==
            MkField(number, CppTypeList[(number % Len(CppTypeList)) + 1],
                    IF is_req(number) THEN "LABEL_REQUIRED"
                                      ELSE "LABEL_OPTIONAL",
                    TRUE, NoOneof, NoOneof, FALSE)
    IN  MkDescriptor(FALSE,
                     [ i \in 1 .. n |->
                         field_of(IF ascending THEN i ELSE n + 1 - i) ],
                     << >>)

LargeDescriptors ==
    { LargeDescriptor(r, o, low, asc) :
        r \in { 0, 1, MaxRequired - 1, MaxRequired },
        o \in { 0, 7, 8, MaxOptional - 1, MaxOptional },
        low \in BOOLEAN, asc \in BOOLEAN }

\* A message with a field of every declaration: fields 1 .. 9, two real
\* oneofs (one of them with two members of different shapes) and one
\* synthetic oneof, with the declaration lists rotated by `shift`.
ScenarioFields ==
    << DeclaredField(1, "CPPTYPE_ENUM", "optional"),
       DeclaredField(2, "CPPTYPE_INT32", "oneof_ab"),
       DeclaredField(3, "CPPTYPE_STRING", "repeated"),
       DeclaredField(4, "CPPTYPE_DOUBLE", "oneof_ab"),
       DeclaredField(5, "CPPTYPE_INT64", "required"),
       DeclaredField(6, "CPPTYPE_MESSAGE", "oneof_a"),
       DeclaredField(7, "CPPTYPE_ENUM", "proto3_optional"),
       DeclaredField(8, "CPPTYPE_FLOAT", "implicit"),
       DeclaredField(9, "CPPTYPE_BOOL", "optional") >>

Rotate(s, shift) ==
    [ i \in 1 .. Len(s) |-> s[((i + shift - 1) % Len(s)) + 1] ]

ScenarioDescriptors ==
    { MkDescriptor(FALSE, Rotate(ScenarioFields, shift), oneofs) :
        shift \in 0 .. Len(ScenarioFields) - 1,
        oneofs \in Orderings(OneofsOf(ScenarioFields)) }

\* The synthetic message of a map field: key = 1 (an integral, bool or string
\* type), value = 2 (any type), singular, with or without presence.
MapKeyTypes ==
    { "CPPTYPE_INT32", "CPPTYPE_INT64", "CPPTYPE_UINT32", "CPPTYPE_UINT64",
      "CPPTYPE_BOOL", "CPPTYPE_STRING" }

MapEntryDescriptors ==
    { MkDescriptor(TRUE,
                   << MkField(1, k, "LABEL_OPTIONAL", presence,
                              NoOneof, NoOneof, TRUE),
                      MkField(2, v, "LABEL_OPTIONAL",
                              presence \/ v = "CPPTYPE_MESSAGE",
                              NoOneof, NoOneof, TRUE) >>,
                   << >>) :
        k \in MapKeyTypes, v \in CppTypes, presence \in BOOLEAN }

-----------------------------------------------------------------------------
(* The state machine: the constructor, then the accessors.                 *)

NoRet == [ op |-> "none", arg |-> 0, value |-> 0 ]

\* The value of a call that does not return.
NoValue == "no value"

\* No object exists before the constructor has run.
InitObject ==
    /\ pc = "new"
    /\ diag = ""
    /\ field_offsets_ = NoObject
    /\ hasbit_indexes_ = NoObject
    /\ oneof_case_offsets_ = NoObject
    /\ maxalign_ = NoObject
    /\ size_ = NoObject
    /\ hasbit_count_ = NoObject
    /\ hasbit_bytes_ = NoObject
    /\ required_count_ = NoObject
    /\ ret = NoRet

InitDescriptor(types) ==
    \/ IsSmallDescriptor(descriptor, types)
    \/ descriptor \in ScenarioDescriptors
    \/ descriptor \in LargeDescriptors
    \/ descriptor \in MapEntryDescriptors

Init == InitDescriptor(CalledTypes) /\ InitObject

InitLayout == InitDescriptor(SmallTypes) /\ InitObject

\* The values an int member may hold: the assigned value, or anything the
\* storage held if the constructor never assigned it.
IndeterminateInts == (0 - MaxIndeterminate) .. MaxIndeterminate

ReadInt(self, member, storage) ==
    IF member \in self.unassigned THEN storage[member] ELSE self[member]

\* The constructor's outcome, given the object ComputeLayout leaves.
\* The process ends in exit(1) at the usage limit.  A failed ABSL_ASSERT
\* aborts in a build with assertions and is skipped in an NDEBUG build.
Constructed(self) ==
    \E storage \in [ self.unassigned -> IndeterminateInts ],
       ndebug \in (IF self.asserts THEN { TRUE } ELSE BOOLEAN) :
      IF self.exited \/ (~self.asserts /\ ~ndebug)
      THEN /\ pc' = IF self.exited THEN "exited" ELSE "aborted"
           /\ diag' = IF self.exited
                      THEN "upb does not support messages with more than 63 required fields"
                      ELSE "Assertion failed: IsPowerOfTwo(align)"
           /\ UNCHANGED << field_offsets_, hasbit_indexes_,
                           oneof_case_offsets_, maxalign_, size_,
                           hasbit_count_, hasbit_bytes_, required_count_ >>
      ELSE /\ pc' = "ready"
           /\ diag' = diag
           /\ field_offsets_' = self.field_offsets_
           /\ hasbit_indexes_' = self.hasbit_indexes_
           /\ oneof_case_offsets_' = self.oneof_case_offsets_
           /\ maxalign_' = self.maxalign_
           /\ size_' = self.size_
           /\ hasbit_count_' = ReadInt(self, "hasbit_count_", storage)
           /\ hasbit_bytes_' = ReadInt(self, "hasbit_bytes_", storage)
           /\ required_count_' = ReadInt(self, "required_count_", storage)

\* MessageLayout(descriptor) { ComputeLayout(descriptor); }
Construct ==
    /\ pc = "new"
    /\ Constructed(ComputeLayout(descriptor))
    /\ UNCHANGED << descriptor, ret >>

\* A lookup that returns 0 for a missing key instead of aborting.
GetMapValueOrZero(op, map, key) ==
    /\ pc' = "returned"
    /\ diag' = diag
    /\ ret' = [ op |-> op, arg |-> key,
                value |-> IF key \in DOMAIN map THEN map[key] ELSE 0 ]

\* GetMapValue(map, key), called by accessor `op`: the value, or
\* "No value for field." and abort().
GetMapValue(op, map, key) ==
    IF key \in DOMAIN map
    THEN /\ pc' = "returned"
         /\ diag' = diag
         /\ ret' = [ op |-> op, arg |-> key, value |-> map[key] ]
    ELSE /\ pc' = "aborted"
         /\ diag' = "No value for field."
         /\ ret' = [ op |-> op, arg |-> key, value |-> NoValue ]

Members ==
    << descriptor, field_offsets_, hasbit_indexes_, oneof_case_offsets_,
       maxalign_, size_, hasbit_count_, hasbit_bytes_, required_count_ >>

GetFieldOffset ==
    /\ pc = "ready"
    /\ \E field \in Range(descriptor.field) :
         GetMapValue("GetFieldOffset", field_offsets_, field.number)
    /\ UNCHANGED Members

GetOneofCaseOffset ==
    /\ pc = "ready"
    /\ \E oneof \in Range(descriptor.oneof_decl) :
         GetMapValue("GetOneofCaseOffset", oneof_case_offsets_, oneof)
    /\ UNCHANGED Members

GetHasbitIndex ==
    /\ pc = "ready"
    /\ \E field \in Range(descriptor.field) :
         GetMapValue("GetHasbitIndex", hasbit_indexes_, field.number)
    /\ UNCHANGED Members

\* An accessor that returns a member.
Return(op, value) ==
    /\ ret' = [ op |-> op, arg |-> 0, value |-> value ]
    /\ pc' = "returned"
    /\ diag' = diag
    /\ UNCHANGED Members

message_size == pc = "ready" /\ Return("message_size", size_)

hasbit_count == pc = "ready" /\ Return("hasbit_count", hasbit_count_)

hasbit_bytes == pc = "ready" /\ Return("hasbit_bytes", hasbit_bytes_)

required_count == pc = "ready" /\ Return("required_count", required_count_)

Next ==
    \/ Construct
    \/ GetFieldOffset
    \/ GetOneofCaseOffset
    \/ GetHasbitIndex
    \/ message_size
    \/ hasbit_count
    \/ hasbit_bytes
    \/ required_count

\* The constructor followed by one accessor call.
Spec == Init /\ [][Next]_vars

\* The constructor alone.
SpecLayout == InitLayout /\ [][Construct]_vars

-----------------------------------------------------------------------------
(* Properties of the computed layout.                                      *)

Ordinary == ~descriptor.map_entry

Fields == Range(descriptor.field)

NonOneofFields == { f \in Fields : f.containing_oneof = NoOneof }

Oneofs == Range(descriptor.oneof_decl)

MembersOf(oneof) == { f \in Fields : f.containing_oneof = oneof }

Widths == { "size32", "size64" }

\* The byte range [lo, hi) of a non-oneof field under width w.
FieldRange(f, w) ==
    [ lo |-> field_offsets_[f.number][w],
      hi |-> field_offsets_[f.number][w] + SizeOf(f).size[w] ]

\* The byte range of a oneof: from its data offset (the offset its members
\* share) to the end of its 4-byte discriminator.
OneofRange(oneof, w) ==
    [ lo |-> field_offsets_[(CHOOSE f \in MembersOf(oneof) : TRUE).number][w],
      hi |-> oneof_case_offsets_[oneof][w] + 4 ]

\* The presence-byte region.
HasbitRange == [ lo |-> 0, hi |-> hasbit_bytes_ ]

Disjoint(r, s) == r.hi <= s.lo \/ s.hi <= r.lo

\* C1.  Non-overlap: in the layout of an ordinary message, under each width,
\* the presence-byte region, the range of every non-oneof field and the
\* range (data offset to discriminator end) of every oneof are pairwise
\* disjoint.
C1_NonOverlap ==
    (pc = "ready" /\ Ordinary) =>
      \A w \in Widths :
        /\ \A f \in NonOneofFields :
             /\ Disjoint(HasbitRange, FieldRange(f, w))
             /\ \A g \in NonOneofFields :
                  f.number # g.number =>
                    Disjoint(FieldRange(f, w), FieldRange(g, w))
             /\ \A o \in Oneofs : Disjoint(FieldRange(f, w), OneofRange(o, w))
        /\ \A o \in Oneofs :
             /\ Disjoint(HasbitRange, OneofRange(o, w))
             /\ \A q \in Oneofs :
                  o # q => Disjoint(OneofRange(o, w), OneofRange(q, w))

\* A layout with presence bytes, several non-oneof fields, a oneof of two
\* members and a second oneof.
C1_Witness ==
    /\ pc = "ready" /\ Ordinary
    /\ hasbit_bytes_ > 0
    /\ Cardinality(NonOneofFields) >= 2
    /\ Cardinality(Oneofs) >= 2
    /\ \E o \in Oneofs : Cardinality(MembersOf(o)) >= 2

\* C2.  Alignment validity: in every computed layout (ordinary or map-entry)
\* every field of the message has an offset, and under each width that offset
\* is a multiple of the alignment of the field's own shape SizeOf(field);
\* this covers non-oneof fields, oneof members and map-entry fields.
C2_AlignmentValid ==
    pc = "ready" =>
      \A f \in Fields :
        /\ f.number \in DOMAIN field_offsets_
        /\ \A w \in Widths :
             field_offsets_[f.number][w] % SizeOf(f).align[w] = 0

\* A oneof member that shares, at a nonzero offset, the data slot of a
\* member of a larger alignment, and in the same message a non-oneof field at
\* a nonzero offset.
C2_Witness ==
    /\ pc = "ready" /\ Ordinary
    /\ \E f \in Fields :
         /\ f.containing_oneof # NoOneof
         /\ field_offsets_[f.number].size64 > 0
         /\ \E g \in MembersOf(f.containing_oneof) :
              SizeOf(f).align.size64 < SizeOf(g).align.size64
    /\ \E f \in NonOneofFields : field_offsets_[f.number].size32 > 0

\* The fields that have a presence bit.
HasbitFields == { f \in Fields : HasHasbit(f) }

\* C4.  Presence-bit indexing: in the layout of an ordinary message exactly
\* the fields with a presence bit have an index; the indices are exactly
\* 1 .. hasbit_count_, each held by one field (0 is never assigned); the
\* required fields hold 1 .. required_count_; and within the required and
\* within the non-required fields the indices ascend with the field number.
C4_PresenceBitIndexing ==
    (pc = "ready" /\ Ordinary) =>
      /\ DOMAIN hasbit_indexes_ = { f.number : f \in HasbitFields }
      /\ { hasbit_indexes_[k] : k \in DOMAIN hasbit_indexes_ }
           = 1 .. hasbit_count_
      /\ Cardinality(HasbitFields) = hasbit_count_
      /\ \A f \in HasbitFields :
           is_required(f) <=> hasbit_indexes_[f.number] <= required_count_
      /\ \A f, g \in HasbitFields :
           (is_required(f) = is_required(g) /\ f.number < g.number) =>
             hasbit_indexes_[f.number] < hasbit_indexes_[g.number]

\* A layout in which a required field has a higher number than a
\* non-required presence-tracked field, and a oneof member has no index.
C4_Witness ==
    /\ pc = "ready" /\ Ordinary
    /\ \E f, g \in HasbitFields :
         is_required(f) /\ ~is_required(g) /\ g.number < f.number
    /\ \E f \in Fields : f.real_containing_oneof # NoOneof
    /\ hasbit_count_ > required_count_

\* The field a GetHasbitIndex call was made for.
QueriedField == FindFieldByNumber(descriptor, ret.arg)

\* C5 as stated.  presence_bit_index(field) returns 0, and does not abort,
\* for every field of the message that has no presence bit.
C5_ReturnsZeroIfUntracked ==
    (ret.op = "GetHasbitIndex" /\ ~HasHasbit(QueriedField)) =>
      (pc = "returned" /\ ret.value = 0)

\* C5 as amended.  GetHasbitIndex(field) returns the field's index, which is
\* in 1 .. hasbit_count_ and never 0, for a field that has a presence bit;
\* for a field of the message that has none (a oneof member, a field without
\* presence, a map-entry field) it prints "No value for field." and aborts.
C5_AbortsIfUntracked ==
    ret.op = "GetHasbitIndex" =>
      IF HasHasbit(QueriedField)
      THEN /\ pc = "returned"
           /\ ret.value = hasbit_indexes_[ret.arg]
           /\ ret.value \in 1 .. hasbit_count_
      ELSE /\ pc = "aborted"
           /\ diag = "No value for field."
           /\ ret.value = NoValue

\* GetHasbitIndex was called for a member of a real oneof of a message that
\* also has presence-tracked fields.
C5_Witness ==
    /\ ret.op = "GetHasbitIndex"
    /\ Ordinary
    /\ QueriedField.real_containing_oneof # NoOneof
    /\ HasbitFields # { }
    /\ pc = "aborted"

\* The end of the highest placed item under width w: the presence bytes,
\* every field at its own size, every discriminator.
HighestEnd(w) ==
    LET ends == { hasbit_bytes_ }
                \cup { field_offsets_[f.number][w] + SizeOf(f).size[w] :
                         f \in Fields }
                \cup { oneof_case_offsets_[o][w] + 4 : o \in Oneofs }
    IN  CHOOSE e \in ends : \A x \in ends : x <= e

\* The number of required fields with a presence bit.
RequiredHasbits == Cardinality({ f \in HasbitFields : is_required(f) })

\* C3.  Total size validity: every layout computation of an ordinary message
\* that does not end in the usage-limit failure completes, whatever the
\* number of presence-tracked fields, and its total size is under each width
\* a multiple of the final maxalign_ and at least the end of the highest
\* placed item.
C3_TotalSizeValid ==
    (Ordinary /\ pc \notin { "new", "exited" }) =>
      /\ pc = "ready"
      /\ \A w \in Widths :
           /\ size_[w] % maxalign_[w] = 0
           /\ size_[w] >= HighestEnd(w)

\* C6.  Usage-limit failure: the layout computation of an ordinary message
\* ends in the usage-limit failure exactly if the message has more than 63
\* required fields with a presence bit; with at most 63 of them it completes,
\* whatever the number of non-required presence-tracked fields; and after the
\* failure there is no layout.
C6_UsageLimit ==
    (Ordinary /\ pc # "new") =>
      /\ (pc = "exited") <=> (RequiredHasbits > 63)
      /\ (RequiredHasbits <= 63) => (pc = "ready")
      /\ (pc = "exited") =>
           /\ diag = "upb does not support messages with more than 63 required fields"
           /\ size_ = NoObject
           /\ field_offsets_ = NoObject

\* C7.  Map-entry uniformity: in the layout of a map-entry message the key is
\* at {0,0}, the value at {8,16}, the total size is {16,32}, no field has a
\* presence-bit index, and the presence-bit count and the presence-byte
\* count are 0.
C7_MapEntryUniform ==
    (descriptor.map_entry /\ pc = "ready") =>
      /\ field_offsets_ = (1 :> MkSize(0, 0)) @@ (2 :> MkSize(8, 16))
      /\ size_ = MkSize(16, 32)
      /\ DOMAIN hasbit_indexes_ = { }
      /\ hasbit_count_ = 0
      /\ hasbit_bytes_ = 0

\* The message with the same fields and oneofs as d, declared in one fixed
\* order: the fields by number, the oneofs by name.
Canonical(d) ==
    MkDescriptor(d.map_entry,
                 SortSeq(d.field, LAMBDA f, g : f.number < g.number),
                 SortSeq(d.oneof_decl, StringLess))

\* The layout of the canonical declaration of the message.
CanonicalLayout == ComputeLayout(Canonical(descriptor))

SameLayout(self) ==
    /\ ~self.exited
    /\ field_offsets_ = self.field_offsets_
    /\ oneof_case_offsets_ = self.oneof_case_offsets_
    /\ hasbit_indexes_ = self.hasbit_indexes_
    /\ hasbit_count_ = self.hasbit_count_
    /\ hasbit_bytes_ = self.hasbit_bytes_
    /\ required_count_ = self.required_count_
    /\ size_ = self.size_

\* C8.  Independence of the declaration order: the layout of an ordinary
\* message (field offsets, discriminator offsets, presence-bit indices,
\* presence-bit and presence-byte counts, required count, total size) equals
\* the layout of the message that declares the same fields and oneofs in the
\* canonical order; so any two declaration orders give the same layout.
C8_DeclarationOrderIndependent ==
    (pc = "ready" /\ Ordinary) => SameLayout(CanonicalLayout)

\* A layout of a message that declares two fields of one rank, two fields
\* with a presence bit, and its oneofs, against the canonical order.
C8_Witness ==
    /\ pc = "ready" /\ Ordinary
    /\ \E i, j \in DOMAIN descriptor.field :
         LET f == descriptor.field[i]
             g == descriptor.field[j]
         IN  /\ i < j /\ f.number > g.number
             /\ f.containing_oneof = NoOneof /\ g.containing_oneof = NoOneof
             /\ LayoutRankBucket(f) = LayoutRankBucket(g)
             /\ HasHasbit(f) /\ HasHasbit(g)
    /\ descriptor.oneof_decl # Canonical(descriptor).oneof_decl
    /\ \E i, j \in DOMAIN descriptor.field :
         /\ i < j
         /\ descriptor.field[i].number > descriptor.field[j].number
         /\ descriptor.field[i].containing_oneof # NoOneof
         /\ descriptor.field[i].containing_oneof
              = descriptor.field[j].containing_oneof

\* The singular fields placed in the non-oneof pass.
SingularFields == { f \in NonOneofFields : ~is_repeated(f) }

Is64BitScalar(f) ==
    f.cpp_type \in { "CPPTYPE_INT64", "CPPTYPE_UINT64", "CPPTYPE_DOUBLE" }

Is32BitScalar(f) ==
    f.cpp_type \in { "CPPTYPE_FLOAT", "CPPTYPE_INT32", "CPPTYPE_UINT32",
                     "CPPTYPE_ENUM" }

\* C9.  Rank buckets: a singular non-oneof field of a 64-bit scalar type is
\* in bucket 1 and one of a 32-bit type (float, int32, uint32, enum) in
\* bucket 2; so every singular enum field is placed after every singular
\* int64, uint64 or double field.
C9_EnumInBucket2 ==
    (pc = "ready" /\ Ordinary) =>
      \A f \in SingularFields :
        /\ Is64BitScalar(f) => LayoutRankBucket(f) = 1
        /\ Is32BitScalar(f) => LayoutRankBucket(f) = 2
        /\ f.cpp_type = "CPPTYPE_ENUM" =>
             \A g \in SingularFields :
               Is64BitScalar(g) =>
                 \A w \in Widths :
                   field_offsets_[g.number][w] < field_offsets_[f.number][w]

\* C10.  Presence bits inside the presence bytes: in the layout of an
\* ordinary message every assigned presence-bit index i is below
\* 8 * hasbit_bytes_, so that byte i \div 8 belongs to the presence bytes.
C10_HasbitInsideRegion ==
    (pc = "ready" /\ Ordinary) =>
      \A k \in DOMAIN hasbit_indexes_ :
        /\ hasbit_indexes_[k] < 8 * hasbit_bytes_
        /\ hasbit_indexes_[k] \div 8 < hasbit_bytes_

=============================================================================
